---- MODULE Spec2Model ----
(***************************************************************************)
(* Model of em3ndo/profinesser: the SQLite/FTS5 faculty cache              *)
(* (BaseStorage.py), the faculty discovery agent (FacultyAgent.py) and the *)
(* paper ranking agent (agent2_analyst.py).                                *)
(*                                                                         *)
(* Strings are sequences of one-character strings, so that lower(),        *)
(* substring tests and tokenisation are computed, not assumed.             *)
(* An optional value (Python None / missing key) is <<>>, a present value  *)
(* v is <<v>>.                                                             *)
(***************************************************************************)
EXTENDS Integers, Sequences, FiniteSets, TLC

VARIABLES faculty, faculty_search, call

vars == <<faculty, faculty_search, call>>

----------------------------------------------------------------------------
(* Bounds of the model                                                     *)

MaxRowid == 3        \* rowids handed out by the faculty table
MaxSaveLen == 2      \* records in one direct save_faculty call
MaxWorks == 2        \* works in one /works response
MaxAuthors == 2      \* authors in one /authors response
MaxPapers == 2       \* papers in one Semantic Scholar response

----------------------------------------------------------------------------
(* Python / SQLite primitives                                              *)

Min(a, b) == IF a <= b THEN a ELSE b

Max(a, b) == IF a >= b THEN a ELSE b

\* the elements of a list
Elems(xs) == { xs[i] : i \in 1..Len(xs) }

None == <<>>

Some(v) == <<v>>

\* str.lower() on one character of the model's alphabet
LowerChar(c) ==
  CASE c = "A" -> "a"
    [] c = "B" -> "b"
    [] c = "C" -> "c"
    [] c = "G" -> "g"
    [] c = "I" -> "i"
    [] c = "U" -> "u"
    [] OTHER -> c

\* str.lower()
Lower(s) == [i \in 1..Len(s) |-> LowerChar(s[i])]

\* Python's `sub in s` on strings
Contains(sub, s) ==
  \E i \in 0..(Len(s) - Len(sub)) : SubSeq(s, i + 1, i + Len(sub)) = sub

\* s[:n] that never cuts
SliceWhole(s, n) == s

\* Python's s[:n], negative n included
Slice(s, n) ==
  IF n >= 0 THEN SubSeq(s, 1, Min(n, Len(s)))
            ELSE SubSeq(s, 1, Max(0, Len(s) + n))

\* separator characters of the FTS5 unicode61 tokenizer
IsSep(c) == c = " "

\* the set of tokens the FTS5 tokenizer produces for a text: maximal runs
\* of non-separator characters, folded to lower case
Tokens(s) ==
  { Lower(SubSeq(s, i, j)) : <<i, j>> \in
      { p \in (1..Len(s)) \X (1..Len(s)) :
          /\ p[1] <= p[2]
          /\ \A k \in p[1]..p[2] : ~IsSep(s[k])
          /\ (p[1] = 1 \/ IsSep(s[p[1] - 1]))
          /\ (p[2] = Len(s) \/ IsSep(s[p[2] + 1])) } }

DigitVal(c) ==
  CASE c = "0" -> 0 [] c = "1" -> 1 [] c = "2" -> 2 [] c = "3" -> 3
    [] c = "4" -> 4 [] c = "5" -> 5 [] c = "6" -> 6 [] c = "7" -> 7
    [] c = "8" -> 8 [] c = "9" -> 9 [] OTHER -> -1

RECURSIVE DecimalValue(_)
DecimalValue(s) ==
  IF s = <<>> THEN 0
  ELSE 10 * DecimalValue(SubSeq(s, 1, Len(s) - 1)) + DigitVal(s[Len(s)])

\* the value SQLite compares with an INTEGER rowid when the TEXT column
\* faculty.id is joined to it: the number the text spells, and no number
\* (0 here, rowids start at 1) when the text is not numeric
IdAsRowid(id) ==
  IF id # <<>> /\ \A i \in 1..Len(id) : DigitVal(id[i]) >= 0
  THEN DecimalValue(id) ELSE 0

----------------------------------------------------------------------------
(* DataTypes.Faculty                                                       *)

Faculty(name, id, h_index, specialty, top_paper, last_known_institution) ==
  [name |-> name, id |-> id, h_index |-> h_index, specialty |-> specialty,
   top_paper |-> top_paper, last_known_institution |-> last_known_institution]

\* a sort left out
SortByHIndexOmitted(xs) == xs

\* sorted(xs, key=lambda x: x.h_index, reverse=True): stable, descending
InsertByHIndex(sorted, x) ==
  LET n == Cardinality({i \in 1..Len(sorted) : sorted[i].h_index >= x.h_index})
  IN SubSeq(sorted, 1, n) \o <<x>> \o SubSeq(sorted, n + 1, Len(sorted))

RECURSIVE SortByHIndex(_)
SortByHIndex(xs) ==
  IF xs = <<>> THEN <<>>
  ELSE InsertByHIndex(SortByHIndex(SubSeq(xs, 1, Len(xs) - 1)), xs[Len(xs)])

----------------------------------------------------------------------------
(* BaseStorage.SQLiteStorage                                               *)

\* rowid SQLite gives the next row inserted into faculty
NextRowid(tbl) ==
  IF tbl = {} THEN 1
  ELSE (CHOOSE m \in {r.rowid : r \in tbl} : \A r \in tbl : r.rowid <= m) + 1

\* one iteration of the loop of save_faculty: INSERT OR REPLACE into faculty
\* (the row with the same id is deleted, the new row gets a fresh rowid),
\* then an index entry for that rowid is added to faculty_search
SaveOne(db, f) ==
  LET rid == NextRowid(db.faculty)
  IN [faculty |-> {r \in db.faculty : r.rec.id # f.id}
                    \cup {[rowid |-> rid, rec |-> f]},
      faculty_search |-> db.faculty_search \cup
          {[rowid |-> rid,
            toks |-> Tokens(f.name) \cup Tokens(f.specialty)
                       \cup Tokens(f.top_paper)]}]

RECURSIVE save_faculty(_, _)
save_faculty(db, faculty_list) ==
  IF faculty_list = <<>> THEN db
  ELSE save_faculty(SaveOne(db, faculty_list[1]),
                    SubSeq(faculty_list, 2, Len(faculty_list)))

\* faculty_search MATCH keyword: every token of the query occurs in the entry
Match(keyword, entry) ==
  /\ Tokens(keyword) # {}
  /\ Tokens(keyword) \subseteq entry.toks

\* rows of  faculty f JOIN faculty_search fs ON f.id = fs.rowid  that MATCH
JoinRows(db, keyword) ==
  { r \in db.faculty :
      \E e \in db.faculty_search :
        Match(keyword, e) /\ IdAsRowid(r.rec.id) = e.rowid }

RECURSIVE RowsInOrder(_)
RowsInOrder(rows) ==
  IF rows = {} THEN <<>>
  ELSE LET r == CHOOSE x \in rows :
                  \A y \in rows :
                    \/ IdAsRowid(x.rec.id) < IdAsRowid(y.rec.id)
                    \/ /\ IdAsRowid(x.rec.id) = IdAsRowid(y.rec.id)
                       /\ x.rowid <= y.rowid
       IN <<r.rec>> \o RowsInOrder(rows \ {r})

\* search_cache: the matching rows, in the order of the scan of the index
search_cache(db, keyword) == RowsInOrder(JoinRows(db, keyword))

DB == [faculty |-> faculty, faculty_search |-> faculty_search]

----------------------------------------------------------------------------
(* FacultyAgent.get_experts                                                *)

BatchSize == 50

\* the institution filter without .lower()
RECURSIVE SchoolMatchesCaseSensitive(_, _)
SchoolMatchesCaseSensitive(cached, school_name) ==
  IF cached = <<>> THEN <<>>
  ELSE (IF Contains(school_name, cached[1].last_known_institution)
        THEN <<cached[1]>> ELSE <<>>)
       \o SchoolMatchesCaseSensitive(SubSeq(cached, 2, Len(cached)), school_name)

\* [f for f in cached if school_name.lower() in f.last_known_institution.lower()]
RECURSIVE SchoolMatches(_, _)
SchoolMatches(cached, school_name) ==
  IF cached = <<>> THEN <<>>
  ELSE (IF Contains(Lower(school_name), Lower(cached[1].last_known_institution))
        THEN <<cached[1]>> ELSE <<>>)
       \o SchoolMatches(SubSeq(cached, 2, Len(cached)), school_name)

\* any(inst.get('id') == school_id for inst in insts)
AnyInst(insts, school_id) == \E i \in 1..Len(insts) : insts[i] = school_id

\* potential_map[auth_id] = title : a dict keeps the position of the first
\* insertion of a key and the value of the last assignment to it
MapPut(m, auth_id, title) ==
  IF \E i \in 1..Len(m) : m[i].key = auth_id
  THEN [i \in 1..Len(m) |->
          IF m[i].key = auth_id THEN [key |-> auth_id, val |-> title] ELSE m[i]]
  ELSE Append(m, [key |-> auth_id, val |-> title])

\* the inner loop over work.get('authorships', [])
RECURSIVE MapAuthorships(_, _, _, _)
MapAuthorships(m, authorships, title, school_id) ==
  IF authorships = <<>> THEN m
  ELSE LET a == authorships[1]
           m1 == IF AnyInst(a.institutions, school_id) /\ a.author # None
                 THEN MapPut(m, a.author[1], title) ELSE m
       IN MapAuthorships(m1, SubSeq(authorships, 2, Len(authorships)),
                         title, school_id)

\* the loop over works_data.get('results', [])
RECURSIVE MapWorks(_, _, _)
MapWorks(m, works, school_id) ==
  IF works = <<>> THEN m
  ELSE MapWorks(MapAuthorships(m, works[1].authorships, works[1].title, school_id),
                SubSeq(works, 2, Len(works)), school_id)

PotentialMap(works, school_id) == MapWorks(<<>>, works, school_id)

InMap(m, a_id) == \E i \in 1..Len(m) : m[i].key = a_id

MapGet(m, a_id) == m[CHOOSE i \in 1..Len(m) : m[i].key = a_id].val

\* the field test over all topics instead of topics[:3]
IsCsAnyTopic(topics) ==
  \E i \in 1..Len(topics) : topics[i].field = Some("Computer Science")

\* any(t.get('field', {}).get('display_name') == "Computer Science"
\*     for t in topics[:3])
IsCs(topics) ==
  \E i \in 1..Len(Slice(topics, 3)) : topics[i].field = Some("Computer Science")

\* (author.get('summary_stats') or {}).get('h_index', 0)
HIndexOf(author) ==
  IF author.summary_stats = None THEN 0 ELSE author.summary_stats[1]

\* the body of the loop over author_res.get('results', [])
VerifyAuthor(author, m, school_id, school_display) ==
  LET last_insts == author.last_known_institutions
      topics == author.topics
  IN IF AnyInst(last_insts, school_id) /\ IsCs(topics) /\ InMap(m, author.id)
     THEN << Faculty(author.display_name, author.id, HIndexOf(author),
                     IF topics # <<>> THEN topics[1].display_name
                                      ELSE <<"A", "I">>,
                     MapGet(m, author.id), school_display) >>
     ELSE <<>>

RECURSIVE VerifyBatch(_, _, _, _)
VerifyBatch(results, m, school_id, school_display) ==
  IF results = <<>> THEN <<>>
  ELSE VerifyAuthor(results[1], m, school_id, school_display)
       \o VerifyBatch(SubSeq(results, 2, Len(results)), m, school_id, school_display)

\* the loop  for i in range(0, len(auth_ids), 50)  over the responses
RECURSIVE VerifiedList(_, _, _, _)
VerifiedList(author_res, m, school_id, school_display) ==
  IF author_res = <<>> THEN <<>>
  ELSE VerifyBatch(author_res[1], m, school_id, school_display)
       \o VerifiedList(SubSeq(author_res, 2, Len(author_res)),
                       m, school_id, school_display)

\* number of /authors requests for n candidate ids
Batches(n) == (n + BatchSize - 1) \div BatchSize

----------------------------------------------------------------------------
(* agent2_analyst.ResearchAnalystAgent                                     *)

MinYear == 2018

SnippetLen == 200

TopPapers == 3

\* 2.0, in hundredths of a point: every score below is in hundredths
MaxBoost == 200

Dots == <<".", ".", ".">>

\* the filter of _rank_papers on years, without the floor
PassesFilterAnyYear(paper) ==
  /\ paper.abstract # None /\ paper.abstract[1] # <<>>
  /\ paper.year # None

\* the two `continue` tests of _rank_papers, negated
PassesFilter(paper) ==
  /\ ~(paper.abstract = None \/ paper.abstract[1] = <<>> \/ paper.year = None)
  /\ ~(paper.year[1] < MinYear)

\* text_content = ((paper['title'] + " ") * 2 + paper['abstract']).lower()
TextContent(paper) ==
  Lower(paper.title \o <<" ">> \o paper.title \o <<" ">> \o paper.abstract[1])

\* target_keywords = set([k.lower() for k in interests + skills])
TargetKeywords(interests, skills) ==
  { Lower(k) : k \in Elems(interests \o skills) }

\* the keywords the scoring loop appends to matches; Python iterates the
\* set in an unspecified order, so the list is kept as a set
Matches(paper, interests, skills) ==
  { k \in TargetKeywords(interests, skills) : Contains(k, TextContent(paper)) }

\* a citation boost that is always zero
CitationBoostNone(paper) == 0

\* citation_boost = min(paper.get('citationCount', 0) / 100.0, 2.0):
\* citationCount / 100.0 points are citationCount hundredths
CitationBoost(paper) ==
  Min(IF paper.citationCount = None THEN 0 ELSE paper.citationCount[1],
      MaxBoost)

\* final_score = score + citation_boost, in hundredths
FinalScore(paper, interests, skills) ==
  100 * Cardinality(Matches(paper, interests, skills)) + CitationBoost(paper)

\* the dict appended to ranked
RankEntry(paper, interests, skills) ==
  [title |-> paper.title, year |-> paper.year[1], url |-> paper.url,
   relevance_score |-> FinalScore(paper, interests, skills),
   matched_keywords |-> Matches(paper, interests, skills),
   abstract_snippet |-> Slice(paper.abstract[1], SnippetLen) \o Dots]

\* the loop of _rank_papers
RECURSIVE Ranked(_, _, _)
Ranked(papers, interests, skills) ==
  IF papers = <<>> THEN <<>>
  ELSE (IF PassesFilter(papers[1]) /\ FinalScore(papers[1], interests, skills) > 0
        THEN <<RankEntry(papers[1], interests, skills)>> ELSE <<>>)
       \o Ranked(SubSeq(papers, 2, Len(papers)), interests, skills)

\* sorted(ranked, key=lambda x: x['relevance_score'], reverse=True)
InsertByScore(sorted, x) ==
  LET n == Cardinality({i \in 1..Len(sorted) :
                          sorted[i].relevance_score >= x.relevance_score})
  IN SubSeq(sorted, 1, n) \o <<x>> \o SubSeq(sorted, n + 1, Len(sorted))

RECURSIVE SortByScore(_)
SortByScore(xs) ==
  IF xs = <<>> THEN <<>>
  ELSE InsertByScore(SortByScore(SubSeq(xs, 1, Len(xs) - 1)), xs[Len(xs)])

\* ResearchAnalystAgent._rank_papers(papers, interests, skills)
rank_papers(papers, interests, skills) ==
  SortByScore(Ranked(papers, interests, skills))

\* ResearchAnalystAgent._fetch_papers: a RequestException of requests.get or
\* of raise_for_status is caught and gives [], a good answer gives
\* data.get('data', [])
fetch_papers(response) ==
  IF response.kind = "ok"
  THEN (IF response.data = None THEN <<>> ELSE response.data[1])
  ELSE <<>>

ErrorResult == [error |-> "No papers found or API error."]

\* run without the test of raw_papers
runUnchecked(input_data, response) ==
  [professor_name |-> input_data.professor_name,
   student_profile_used |-> [skills |-> input_data.student_skills,
                             interests |-> input_data.student_interests],
   recommended_papers |->
     Slice(rank_papers(fetch_papers(response), input_data.student_interests,
                       input_data.student_skills), TopPapers)]

\* ResearchAnalystAgent.run(input_data); analysis_timestamp, the wall clock
\* of the call, is left out of the payload
run(input_data, response) ==
  LET raw_papers == fetch_papers(response)
  IN IF raw_papers = <<>> THEN ErrorResult
     ELSE [professor_name |-> input_data.professor_name,
           student_profile_used |-> [skills |-> input_data.student_skills,
                                     interests |-> input_data.student_interests],
           recommended_papers |->
             Slice(rank_papers(raw_papers, input_data.student_interests,
                               input_data.student_skills), TopPapers)]

NoCall == [op |-> "none"]

----------------------------------------------------------------------------
(* The storage alone: direct calls of SQLiteStorage                        *)

StoreIds == { <<"1">>, <<"2">>, <<"A", "1">> }

StoreNames == { <<"g">>, <<"A", "b", " ", "G">> }

\* the records a direct caller saves
StoreRecords ==
  { Faculty(n, i, 5, <<"b">>, <<"U">>, <<"U", "c">>) :
      n \in StoreNames, i \in StoreIds }

StoreKeywords == { <<"g">>, <<"a", "b">>, <<"B">> }

SeqsUpTo(S, n) == UNION { [1..k -> S] : k \in 0..n }

InitStore ==
  /\ faculty = {}
  /\ faculty_search = {}
  /\ call = NoCall

\* storage.save_faculty(faculty_list)
SaveFaculty ==
  \E faculty_list \in SeqsUpTo(StoreRecords, MaxSaveLen) :
    /\ NextRowid(faculty) + Len(faculty_list) - 1 <= MaxRowid
    /\ LET db == save_faculty(DB, faculty_list)
       IN /\ faculty' = db.faculty
          /\ faculty_search' = db.faculty_search
    /\ call' = [op |-> "save", faculty_list |-> faculty_list]

\* storage.search_cache(keyword)
SearchCache ==
  \E keyword \in StoreKeywords :
    /\ call' = [op |-> "search", keyword |-> keyword,
                result |-> search_cache(DB, keyword)]
    /\ UNCHANGED <<faculty, faculty_search>>

NextStore == SaveFaculty \/ SearchCache

SpecStore == InitStore /\ [][NextStore]_vars

\* C3. Idempotent persistence: when save_faculty is called a second time
\* with the list it was just called with, search_cache returns for every
\* keyword what it returned after the first call.
IdempotentPersistence ==
  [][ (call.op = "save" /\ call'.op = "save"
         /\ call'.faculty_list = call.faculty_list)
      => \A k \in StoreKeywords :
           search_cache(DB, k)' = search_cache(DB, k) ]_vars

----------------------------------------------------------------------------
(* The discovery agent over the SQLite storage                             *)

I1 == <<"I", "1">>

I2 == <<"I", "2">>

\* answers of GET /institutions: no result, or two with I1 ranked first
InstResponses ==
  { <<>>,
    << [id |-> I1, display_name |-> <<"U", "c", " ", "B">>],
       [id |-> I2, display_name |-> <<"G", "a">>] >> }

Authorship(author, institutions) ==
  [author |-> author, institutions |-> institutions]

\* works a GET /works answer is made of
Works ==
  { [title |-> <<"g">>,
     authorships |-> << Authorship(Some(<<"1">>), <<I1>>),
                        Authorship(None, <<I1>>),
                        Authorship(Some(<<"3">>), <<I2>>) >>],
    [title |-> <<"a", "b">>,
     authorships |-> << Authorship(Some(<<"1">>), <<I2, I1>>),
                        Authorship(Some(<<"2">>), <<I1>>),
                        Authorship(Some(<<"3">>), <<I1>>) >>] }

Topic(display_name, field) == [display_name |-> display_name, field |-> field]

CsTopic == Topic(<<"g">>, Some("Computer Science"))

ChemTopic == Topic(<<"b">>, Some("Chemistry"))

Author(id, display_name, summary_stats, topics, last_known_institutions) ==
  [id |-> id, display_name |-> display_name, summary_stats |-> summary_stats,
   topics |-> topics, last_known_institutions |-> last_known_institutions]

\* author objects a GET /authors answer is made of
Authors ==
  { Author(<<"1">>, <<"A", "b">>, Some(5), <<CsTopic>>, <<I1>>),
    Author(<<"2">>, <<"g">>, Some(9), <<ChemTopic, Topic(<<"u">>, None), CsTopic>>,
           <<I2, I1>>),
    Author(<<"3">>, <<"u">>, Some(7),
           <<ChemTopic, ChemTopic, ChemTopic, CsTopic>>, <<I1>>),
    Author(<<"2">>, <<"g">>, None, <<CsTopic>>, <<I1>>),
    Author(<<"1">>, <<"A", "b">>, Some(5), <<CsTopic>>, <<I2>>) }

\* sequences of at most n distinct elements of S
DistinctSeqs(S, n) ==
  { q \in SeqsUpTo(S, n) : \A i, j \in 1..Len(q) : i # j => q[i] # q[j] }

WorksResponses == DistinctSeqs(Works, MaxWorks)

AuthorsResponses == DistinctSeqs(Authors, MaxAuthors)

SchoolNames == { <<"u", "C">>, <<"g">> }

SkillKeywords == { <<"g">>, <<"A", "b">> }

Limits == -1..2

\* the record of one get_experts call: its arguments, the answers it
\* consumed, the requests and save_faculty calls it made, what it returned
Call(args, outcome, path, http, school_id, works, authors, saved, result) ==
  [op |-> "get_experts", school_name |-> args[1],
   skill_keyword |-> args[2], limit |-> args[3], outcome |-> outcome,
   path |-> path, http |-> http, school_id |-> school_id, works |-> works,
   authors |-> authors, saved |-> saved, result |-> result]

Init ==
  /\ faculty = {}
  /\ faculty_search = {}
  /\ call = NoCall

\* FacultyAgent.get_experts(school_name, skill_keyword, limit)
GetExperts ==
  /\ call = NoCall
  /\ \E school_name \in SchoolNames, skill_keyword \in SkillKeywords,
        limit \in Limits :
      LET cached == search_cache(DB, skill_keyword)
          school_matches == SchoolMatches(cached, school_name)
          C(outcome, path, http, school_id, works, authors, saved, result) ==
            Call(<<school_name, skill_keyword, limit>>, outcome, path, http,
                 school_id, works, authors, saved, result)
      IN IF cached # <<>> /\ school_matches # <<>>
         THEN \* cache hit
              /\ call' = C("returned", "cache", <<>>, None, <<>>, <<>>, <<>>,
                           Slice(SortByHIndex(school_matches), limit))
              /\ UNCHANGED <<faculty, faculty_search>>
         ELSE \/ \* the /institutions request raises
                 /\ call' = C("raised", "api", <<"institutions">>, None, <<>>,
                              <<>>, <<>>, <<>>)
                 /\ UNCHANGED <<faculty, faculty_search>>
              \/ \E inst_res \in InstResponses :
                   IF inst_res = <<>>
                   THEN /\ call' = C("returned", "no_institution",
                                     <<"institutions">>, None, <<>>, <<>>, <<>>,
                                     <<>>)
                        /\ UNCHANGED <<faculty, faculty_search>>
                   ELSE LET school_id == inst_res[1].id
                            school_display == inst_res[1].display_name
                        IN \/ \* the /works request raises
                              /\ call' = C("raised", "api",
                                           <<"institutions", "works">>,
                                           Some(school_id), <<>>, <<>>, <<>>, <<>>)
                              /\ UNCHANGED <<faculty, faculty_search>>
                           \/ \E works \in WorksResponses :
                                LET potential_map == PotentialMap(works, school_id)
                                    nb == Batches(Len(potential_map))
                                IN \/ \* an /authors request raises
                                      /\ nb > 0
                                      /\ call' = C("raised", "api",
                                             <<"institutions", "works", "authors">>,
                                             Some(school_id), works, <<>>, <<>>, <<>>)
                                      /\ UNCHANGED <<faculty, faculty_search>>
                                   \/ \E author_res \in [1..nb -> AuthorsResponses] :
                                        LET verified_list ==
                                              VerifiedList(author_res, potential_map,
                                                           school_id, school_display)
                                            final_results == SortByHIndex(verified_list)
                                            db == save_faculty(DB, final_results)
                                        IN /\ NextRowid(faculty) + Len(final_results) - 1
                                                <= MaxRowid
                                           /\ faculty' = db.faculty
                                           /\ faculty_search' = db.faculty_search
                                           /\ call' = C("returned", "api",
                                                <<"institutions", "works">>
                                                  \o [i \in 1..nb |-> "authors"],
                                                Some(school_id), works, author_res,
                                                <<final_results>>,
                                                Slice(final_results, limit))

\* the caller has taken the result; the agent waits for the next call
Ready ==
  /\ call # NoCall
  /\ call' = NoCall
  /\ UNCHANGED <<faculty, faculty_search>>

Next == GetExperts \/ Ready

Spec == Init /\ [][Next]_vars

----------------------------------------------------------------------------
(* Properties of get_experts                                               *)

Returned == call.op = "get_experts" /\ call.outcome = "returned"

NonIncreasing(xs) ==
  \A i, j \in 1..Len(xs) : i < j => xs[i].h_index >= xs[j].h_index

\* C1 as stated. The list get_experts returns is sorted in non-increasing
\* h_index order and has length at most limit, for every limit, on the
\* cache-hit path and on the API path.
SortedAndAtMostLimit ==
  Returned => NonIncreasing(call.result) /\ Len(call.result) <= call.limit

\* C1 amended. The returned list is sorted in non-increasing h_index order
\* on both paths for every limit, and has length at most limit whenever
\* limit >= 0.
SortedAndAtMostNonNegativeLimit ==
  Returned =>
    /\ NonIncreasing(call.result)
    /\ call.limit >= 0 => Len(call.result) <= call.limit

\* C1 witness: a cache hit with two matching records that the store returns
\* in increasing h_index order, cut to one record by limit = 1.
CacheHitSortedAndCut ==
  /\ Returned /\ call.path = "cache" /\ call.limit = 1
  /\ LET cached == search_cache(DB, call.skill_keyword)
     IN /\ Len(cached) = 2
        /\ cached[1].h_index < cached[2].h_index
        /\ call.result = <<cached[2]>>

\* a record of the list matches the school, case-insensitively
MatchesSchool(cached, school_name) ==
  \E i \in 1..Len(cached) :
    Contains(Lower(school_name), Lower(cached[i].last_known_institution))

\* C2. Whenever search_cache(skill_keyword) returns a record whose
\* last_known_institution contains school_name case-insensitively,
\* get_experts returns without any HTTP request and without save_faculty.
CacheHitNoExternalCall ==
  [][ (call'.op = "get_experts"
         /\ MatchesSchool(search_cache(DB, call'.skill_keyword),
                          call'.school_name))
      => /\ call'.outcome = "returned"
         /\ call'.http = <<>>
         /\ call'.saved = <<>>
         /\ UNCHANGED <<faculty, faculty_search>> ]_vars

\* C2 witness: a call answered from the store, whose school name matches
\* the stored institution only when case is ignored.
CacheHitCaseInsensitive ==
  /\ Returned /\ call.path = "cache" /\ call.result # <<>>
  /\ ~Contains(call.school_name, call.result[1].last_known_institution)

\* the hydrated author objects of the call, over all batches
Hydrated(c) == { c.authors[b][i] : <<b, i>> \in
                   { p \in (1..Len(c.authors)) \X (1..MaxAuthors + 1) :
                       p[2] <= Len(c.authors[p[1]]) } }

CsAmongFirstThree(topics) ==
  \E i \in 1..3 : i <= Len(topics) /\ topics[i].field = Some("Computer Science")

FromCsAuthor(r, c) ==
  \E a \in Hydrated(c) :
    a.id = r.id /\ a.display_name = r.name /\ CsAmongFirstThree(a.topics)

\* C4. CS-field lock: every record get_experts builds, persists and returns
\* on the API path comes from a hydrated author with a Computer Science
\* topic among its first three; rows enter the store in no other way, and a
\* cache hit returns rows of the store only.
CsFieldLock ==
  [][ call'.op = "get_experts" =>
        /\ call'.path = "api" =>
             \A r \in Elems(call'.result) \cup UNION { Elems(l) : l \in Elems(call'.saved) } :
               FromCsAuthor(r, call')
        /\ \A row \in faculty' \ faculty : FromCsAuthor(row.rec, call')
        /\ call'.path = "cache" =>
             \A r \in Elems(call'.result) : \E row \in faculty : row.rec = r ]_vars

\* C4 witness: the /authors answer holds an author of the resolved
\* institution, present in the works, whose only Computer Science topic is
\* the fourth, next to an author that is returned.
NonCsAuthorDropped ==
  /\ Returned /\ call.path = "api" /\ call.result # <<>>
  /\ \E a \in Hydrated(call) :
       /\ ~CsAmongFirstThree(a.topics)
       /\ \E i \in 1..Len(a.topics) : a.topics[i].field = Some("Computer Science")
       /\ AnyInst(a.last_known_institutions, call.school_id[1])
       /\ InMap(PotentialMap(call.works, call.school_id[1]), a.id)
       /\ \A r \in Elems(call.result) : r.id # a.id

ApiReturned == Returned /\ call.path = "api"

\* the title of the first work of the answer that lists the author with an
\* authorship at the institution
FirstTitle(works, a_id, school_id) ==
  works[CHOOSE w \in 1..Len(works) :
          /\ \E k \in 1..Len(works[w].authorships) :
               /\ works[w].authorships[k].author = Some(a_id)
               /\ AnyInst(works[w].authorships[k].institutions, school_id)
          /\ \A v \in 1..(w - 1) :
               ~\E k \in 1..Len(works[v].authorships) :
                  /\ works[v].authorships[k].author = Some(a_id)
                  /\ AnyInst(works[v].authorships[k].institutions, school_id)].title

\* C8. First-seen wins: on the API path the top_paper of an author's record
\* is the title of the first work of the answer that lists the author at
\* the resolved institution.
FirstSeenWins ==
  ApiReturned =>
    \A r \in Elems(call.saved[1]) :
      r.top_paper = FirstTitle(call.works, r.id, call.school_id[1])

\* the author objects of the answers that pass the checks of get_experts
Passing(c) ==
  { p \in (1..Len(c.authors)) \X (1..MaxAuthors + 1) :
      /\ p[2] <= Len(c.authors[p[1]])
      /\ LET a == c.authors[p[1]][p[2]]
         IN /\ AnyInst(a.last_known_institutions, c.school_id[1])
            /\ CsAmongFirstThree(a.topics)
            /\ InMap(PotentialMap(c.works, c.school_id[1]), a.id) }

\* save_faculty was called once, with the sorted list of all verified
\* records, and the store holds a row for each of them
WroteBackAll ==
  /\ Len(call.saved) = 1
  /\ NonIncreasing(call.saved[1])
  /\ Len(call.saved[1]) = Cardinality(Passing(call))
  /\ \A p \in Passing(call) :
       \E r \in Elems(call.saved[1]) : r.id = call.authors[p[1]][p[2]].id
  /\ \A r \in Elems(call.saved[1]) :
       \E row \in faculty : row.rec.id = r.id /\ row.rec \in Elems(call.saved[1])

\* the first n elements of xs
FirstN(xs, n) == [i \in 1..Min(Max(n, 0), Len(xs)) |-> xs[i]]

\* C9 as stated. On the API path save_faculty is called exactly once with
\* the complete sorted list of verified records, and the returned list is
\* the first limit elements of that list.
FullWriteBackFirstLimit ==
  ApiReturned => WroteBackAll /\ call.result = FirstN(call.saved[1], call.limit)

\* C9 amended. On the API path save_faculty is called exactly once with the
\* complete sorted list of verified records; the returned list is the first
\* limit elements of that list when limit >= 0, and that list without its
\* last -limit elements when limit < 0.
FullWriteBack ==
  ApiReturned =>
    /\ WroteBackAll
    /\ call.limit >= 0 => call.result = FirstN(call.saved[1], call.limit)
    /\ call.limit < 0 =>
         call.result = FirstN(call.saved[1], Len(call.saved[1]) + call.limit)

\* C9 witness: two verified records, hydrated in increasing h_index order,
\* both persisted, only the first returned.
PersistedBeyondLimit ==
  /\ ApiReturned /\ call.limit = 1
  /\ Len(call.saved[1]) = 2
  /\ call.result = <<call.saved[1][1]>>
  /\ Len(call.authors[1]) = 2
  /\ call.authors[1][1].id = call.saved[1][2].id
  /\ call.saved[1][1].h_index > call.saved[1][2].h_index
  /\ \A r \in Elems(call.saved[1]) : \E row \in faculty : row.rec = r

----------------------------------------------------------------------------
(* The analyst: run and _rank_papers applied to bounded inputs            *)

Paper(title, abstract, year, citationCount, url) ==
  [title |-> title, abstract |-> abstract, year |-> year,
   citationCount |-> citationCount, url |-> url]

\* papers a Semantic Scholar answer is made of
Papers ==
  { Paper(<<"A", "b", " ", "g">>, Some(<<"b", " ", "U">>), Some(2023), Some(50), <<"1">>),
    Paper(<<"g">>, Some(<<"a", "b">>), Some(2017), Some(100), <<"2">>),
    Paper(<<"c">>, Some(<<"c", " ", "c">>), Some(2018), Some(5), <<"3">>),
    Paper(<<"g">>, None, Some(2023), Some(300), <<"4">>),
    Paper(<<"g">>, Some(<<"a", "b">>), None, Some(50), <<"5">>),
    Paper(<<"c">>, Some(<<"c", "u">>), Some(2022), None, <<"6">>),
    Paper(<<"g">>, Some(<<>>), Some(2023), Some(50), <<"7">>),
    Paper(<<"c", "c">>, Some(<<"u">>), Some(2020), Some(0), <<"8">>),
    Paper(<<"u">>, Some(<<"G">>), Some(2019), Some(300), <<"9">>) }

\* student profiles: interests and skills
Profiles ==
  { [interests |-> << <<"G">> >>, skills |-> << <<"a", "b">>, <<"g">> >>],
    [interests |-> <<>>, skills |-> <<>>],
    [interests |-> << <<"g", " ", "a">> >>, skills |-> <<>>],
    [interests |-> <<>>, skills |-> << <<>> >>] }

PaperLists == SeqsUpTo(Papers, MaxPapers)

\* what requests.get and raise_for_status do for the papers request
Responses ==
  { [kind |-> "get_raises"], [kind |-> "status_raises"],
    [kind |-> "ok", data |-> None] }
  \cup { [kind |-> "ok", data |-> Some(ps)] : ps \in PaperLists }

InputData(profile) ==
  [authorId |-> <<"1">>, professor_name |-> <<"A">>,
   student_interests |-> profile.interests, student_skills |-> profile.skills]

InitAnalyst ==
  /\ faculty = {}
  /\ faculty_search = {}
  /\ \/ \E profile \in Profiles, response \in Responses :
          call = [op |-> "pending", fn |-> "run",
                  input_data |-> InputData(profile), response |-> response]
     \/ \E profile \in Profiles, papers \in PaperLists :
          call = [op |-> "pending", fn |-> "_rank_papers", papers |-> papers,
                  interests |-> profile.interests, skills |-> profile.skills]

\* agent.run(input_data)
Run ==
  /\ call.op = "pending" /\ call.fn = "run"
  /\ call' = [op |-> "run", input_data |-> call.input_data,
              response |-> call.response,
              output |-> run(call.input_data, call.response)]
  /\ UNCHANGED <<faculty, faculty_search>>

\* agent._rank_papers(papers, interests, skills)
RankPapers ==
  /\ call.op = "pending" /\ call.fn = "_rank_papers"
  /\ call' = [op |-> "_rank_papers", papers |-> call.papers,
              interests |-> call.interests, skills |-> call.skills,
              output |-> rank_papers(call.papers, call.interests, call.skills)]
  /\ UNCHANGED <<faculty, faculty_search>>

NextAnalyst == Run \/ RankPapers

SpecAnalyst == InitAnalyst /\ [][NextAnalyst]_vars

----------------------------------------------------------------------------
(* Properties of the analyst                                               *)

RunDone == call.op = "run"

RankDone == call.op = "_rank_papers"

Succeeded == RunDone /\ call.output # ErrorResult

\* the papers the call ranked
InputPapers ==
  IF RankDone THEN call.papers
  ELSE IF RunDone /\ call.response.kind = "ok" /\ call.response.data # None
       THEN call.response.data[1] ELSE <<>>

\* the ranked entries the call put out
OutputEntries ==
  IF RankDone THEN call.output
  ELSE IF Succeeded THEN call.output.recommended_papers ELSE <<>>

Profile ==
  IF RankDone THEN [interests |-> call.interests, skills |-> call.skills]
  ELSE [interests |-> call.input_data.student_interests,
        skills |-> call.input_data.student_skills]

RecentWithAbstract(p) ==
  /\ p.year # None /\ p.year[1] >= 2018
  /\ p.abstract # None /\ Len(p.abstract[1]) > 0

\* C5. Ranker filter: every entry _rank_papers (and run, in
\* recommended_papers) puts out comes from a paper with a year >= 2018 and
\* a non-empty abstract; papers without them are left out.
RankerFilter ==
  (RunDone \/ RankDone) =>
    /\ \A e \in Elems(OutputEntries) :
         /\ e.year >= 2018
         /\ Len(e.abstract_snippet) > Len(Dots)
         /\ \E p \in Elems(InputPapers) :
              /\ RecentWithAbstract(p)
              /\ p.url = e.url /\ p.title = e.title /\ p.year = Some(e.year)
    /\ \A p \in Elems(InputPapers) :
         ~RecentWithAbstract(p) => \A e \in Elems(OutputEntries) : e.url # p.url

\* C5 witness: _rank_papers is given a paper of 2017 and a paper of 2018
\* and puts out the one of 2018 only.
OldPaperFiltered ==
  /\ RankDone /\ Len(call.output) = 1 /\ call.output[1].year = 2018
  /\ \E p \in Elems(call.papers) :
       p.year = Some(2017) /\ p.abstract # None /\ p.citationCount = Some(100)

\* C6. Transport failure: when the papers request raises a
\* RequestException, in requests.get or in raise_for_status, run returns
\* exactly {"error": "No papers found or API error."}.
TransportFailureGivesError ==
  (RunDone /\ call.response.kind \in {"get_raises", "status_raises"}) =>
    /\ call.output = [error |-> "No papers found or API error."]
    /\ DOMAIN call.output = {"error"}

\* C6 witness: a run whose papers request failed in raise_for_status.
StatusFailureSeen ==
  RunDone /\ call.response.kind = "status_raises" /\ "error" \in DOMAIN call.output

\* the distinct lower-case profile keywords that occur in the lower-case
\* text made of the title, twice, and the abstract
KeywordHits(p, profile) ==
  Cardinality({ Lower(k) : k \in
    { x \in Elems(profile.interests) \cup Elems(profile.skills) :
        Contains(Lower(x),
                 Lower(p.title \o <<" ">> \o p.title \o <<" ">> \o p.abstract[1])) } })

Citations(p) == IF p.citationCount = None THEN 0 ELSE p.citationCount[1]

\* keyword hits + min(citationCount / 100, 2.0) > 0, in hundredths
ScorePositive(p, profile) ==
  100 * KeywordHits(p, profile) + Min(Citations(p), 200) > 0

\* C7. Zero qualifying papers: when the fetch gives a non-empty list and no
\* paper survives filtering and scoring, run returns the error result it
\* returns for an author without papers.
ZeroQualifyingGivesError ==
  (RunDone /\ InputPapers # <<>>
     /\ \A p \in Elems(InputPapers) :
          ~RecentWithAbstract(p) \/ ~ScorePositive(p, Profile))
  => call.output = [error |-> "No papers found or API error."]

Occurrences(xs, P(_)) == Cardinality({ i \in 1..Len(xs) : P(xs[i]) })

\* C10. Score threshold: a paper that passes the abstract/year filter is in
\* the output of _rank_papers if and only if its score (keyword hits plus
\* citation bonus) is > 0; one without keyword hit is kept exactly when its
\* citationCount is > 0.
ScoreThreshold ==
  RankDone =>
    \A p \in Elems(call.papers) :
      RecentWithAbstract(p) =>
        LET SameUrl(e) == e.url = p.url
            IsP(q) == q = p
            kept == Occurrences(call.output, SameUrl)
        IN /\ kept = (IF ScorePositive(p, Profile)
                      THEN Occurrences(call.papers, IsP) ELSE 0)
           /\ KeywordHits(p, Profile) = 0 => (kept > 0 <=> Citations(p) > 0)
           /\ \A e \in Elems(call.output) :
                SameUrl(e) =>
                  e.relevance_score =
                    100 * KeywordHits(p, Profile) + Min(Citations(p), 200)

\* C10 witness: with a profile that matches nothing, a paper with 5
\* citations is kept and a paper with 0 citations is dropped.
KeptOnCitationsAlone ==
  /\ RankDone /\ Len(call.output) = 1
  /\ call.output[1].matched_keywords = {} /\ call.output[1].relevance_score = 5
  /\ \E p \in Elems(call.papers) :
       RecentWithAbstract(p) /\ p.citationCount = Some(0)

\* C11. Cache effectiveness across calls: after a get_experts call that took
\* the API path and persisted a non-empty list of verified records, a call
\* with the same school_name and skill_keyword finds matching records in
\* the store, so that it is answered from the store without HTTP request.
NextCallServedFromCache ==
  (ApiReturned /\ call.saved[1] # <<>>) =>
    LET cached == search_cache(DB, call.skill_keyword)
    IN cached # <<>> /\ SchoolMatches(cached, call.school_name) # <<>>

====
